---- MODULE Spec2Model ----
(***************************************************************************)
(* Model of scripts/hal_alignment/hal_gene_liftover.py: the region parser, *)
(* the source region file builder, the two-stage piped external            *)
(* operations and the pipeline driver of the __main__ block.               *)
(***************************************************************************)
EXTENDS Integers, Sequences, FiniteSets, TLC

\* ------------------------------------------------------------------------
\* Bounds of the model
\* ------------------------------------------------------------------------
MaxCoord == 11

MaxFlank == 3

MaxPos == 2

MaxRegions == 2

MaxExports == 2

\* ------------------------------------------------------------------------
\* Text: a region string is a sequence of one-character strings
\* ------------------------------------------------------------------------
NL == "\n"

Digits == <<"0", "1", "2", "3", "4", "5", "6", "7", "8", "9">>

IsDigit(ch) == \E i \in 1..10 : Digits[i] = ch

DigitVal(ch) == (CHOOSE i \in 1..10 : Digits[i] = ch) - 1

\* int() of a non-empty string of ASCII digits
RECURSIVE IntOf(_)
IntOf(ds) ==
    IF ds = <<>> THEN 0
    ELSE 10 * IntOf(SubSeq(ds, 1, Len(ds) - 1)) + DigitVal(ds[Len(ds)])

AllDigits(s) == \A i \in 1..Len(s) : IsDigit(s[i])

NoColon(s) == \A i \in 1..Len(s) : s[i] # ":"

\* '$' of a Python pattern without re.MULTILINE: the end of the string, or
\* the place just before a newline that is the last character
MatchEndTolerant(text, e) ==
    \/ e = Len(text)
    \/ e = Len(text) - 1 /\ text[Len(text)] = NL

MatchEnd(text, e) == MatchEndTolerant(text, e)

Positions(text, ch) == { i \in 1..Len(text) : text[i] = ch }

\* seq_region_regex.match(region): the set of group assignments of
\* ^(?P<chrom>[^:]+):(?P<start>[0-9]+)-(?P<end>[0-9]+):(?P<strand>1|-1)$
RegexMatches(text) ==
    LET colons == Positions(text, ":")
        dashes == Positions(text, "-")
        ends   == { e \in 1..Len(text) : MatchEnd(text, e) }
        cands  == { [chrom  |-> SubSeq(text, 1, q[1] - 1),
                     start  |-> SubSeq(text, q[1] + 1, q[2] - 1),
                     end    |-> SubSeq(text, q[2] + 1, q[3] - 1),
                     strand |-> SubSeq(text, q[3] + 1, q[4])] :
                    q \in { x \in colons \X dashes \X colons \X ends :
                            x[1] < x[2] /\ x[2] < x[3] /\ x[3] < x[4] } }
    IN  { m \in cands :
            /\ m.chrom # <<>> /\ NoColon(m.chrom)
            /\ m.start # <<>> /\ AllDigits(m.start)
            /\ m.end # <<>> /\ AllDigits(m.end)
            /\ m.strand \in {<<"1">>, <<"-", "1">>} }

SimpleRegion(chrom, start, end, strand) ==
    [chrom |-> chrom, start |-> start, end |-> end, strand |-> strand]

StrandOfDashOne(match_strand) == IF match_strand = <<"-", "1">> THEN "-" ELSE "+"

\* mutant: the start is left 1-based
RegionStartOneBased(match_start) == IntOf(match_start)

RegionStartOf(match_start) == IntOf(match_start) - 1

InvertedOrEmpty(region_start, region_end) == region_start >= region_end

\* parse_region(region): a SimpleRegion under "value", or the ValueError raised
parse_region(region) ==
    LET ms == RegexMatches(region) IN
    IF ms = {} THEN [ok |-> FALSE, error |-> "could not be parsed"]
    ELSE LET match == CHOOSE m \in ms : TRUE
             region_start == RegionStartOf(match.start)
             region_end == IntOf(match.end)
             region_strand == StrandOfDashOne(match.strand)
         IN  IF InvertedOrEmpty(region_start, region_end)
             THEN [ok |-> FALSE, error |-> "inverted/empty interval"]
             ELSE [ok |-> TRUE,
                   value |-> SimpleRegion(match.chrom, region_start,
                                          region_end, region_strand)]

\* ------------------------------------------------------------------------
\* make_src_region_file
\* ------------------------------------------------------------------------
Max(a, b) == IF a >= b THEN a ELSE b

Min(a, b) == IF a <= b THEN a ELSE b

FlankedStart(start, flank_length) == Max(0, start - flank_length)

\* mutant: the flanked end is not clamped to the chromosome
FlankedEndUnclamped(end, flank_length, chrom_size) == end + flank_length

FlankedEnd(end, flank_length, chrom_size) == Min(end + flank_length, chrom_size)

\* the fields printed for one region (name '.', score 0)
BedFields(region, chrom_size, flank_length) ==
    [chrom  |-> region.chrom,
     start  |-> FlankedStart(region.start, flank_length),
     end    |-> FlankedEnd(region.end, flank_length, chrom_size),
     name   |-> ".",
     score  |-> 0,
     strand |-> region.strand]

\* mutant: an end equal to the chromosome length is rejected too
EndAtOrBeyondChrom(end, chrom_size) == end >= chrom_size

EndBeyondChrom(end, chrom_size) == end > chrom_size

StartNegative(start) == start < 0

\* the checks of one loop iteration: "ok", or the ValueError raised
RegionCheck(region, chrom_sizes) ==
    IF region.chrom \notin DOMAIN chrom_sizes THEN "unknown chromosome"
    ELSE IF StartNegative(region.start) THEN "start must be >= 0"
    ELSE IF EndBeyondChrom(region.end, chrom_sizes[region.chrom])
         THEN "end greater than chromosome length"
    ELSE "ok"

\* the values the ValueError's message is formatted from
ErrorNames(region, chrom_sizes, check) ==
    CASE check = "unknown chromosome" -> <<region.chrom>>
      [] check = "start must be >= 0" -> <<region.start>>
      [] OTHER -> <<region.end, chrom_sizes[region.chrom]>>

\* mutant: an invalid region is passed over and the loop goes on
RECURSIVE WriteRegionsSkipping(_, _, _, _)
WriteRegionsSkipping(regions, chrom_sizes, flank_length, written) ==
    IF regions = <<>> THEN [error |-> "ok", file |-> written, names |-> <<>>]
    ELSE LET region == Head(regions)
             check == RegionCheck(region, chrom_sizes)
         IN  WriteRegionsSkipping(Tail(regions), chrom_sizes, flank_length,
                 IF check # "ok" THEN written
                 ELSE Append(written, BedFields(region, chrom_sizes[region.chrom],
                                                flank_length)))

\* the loop over regions, from the file written so far: the file as it is
\* left on disk, and the error raised ("ok" when the loop ran to its end)
RECURSIVE WriteRegions(_, _, _, _)
WriteRegions(regions, chrom_sizes, flank_length, written) ==
    IF regions = <<>> THEN [error |-> "ok", file |-> written, names |-> <<>>]
    ELSE LET region == Head(regions)
             check == RegionCheck(region, chrom_sizes)
         IN  IF check # "ok"
             THEN [error |-> check, file |-> written,
                   names |-> ErrorNames(region, chrom_sizes, check)]
             ELSE WriteRegions(Tail(regions), chrom_sizes, flank_length,
                               Append(written,
                                      BedFields(region, chrom_sizes[region.chrom],
                                                flank_length)))

make_src_region_file(regions, chrom_sizes, flank_length) ==
    WriteRegions(regions, chrom_sizes, flank_length, <<>>)

\* ------------------------------------------------------------------------
\* The pipeline driver: command lines, files and processes
\* ------------------------------------------------------------------------
Runs == {"r1", "r2"}

Genomes == {"GRCh38", "CHM13"}

Chr == <<"c">>

\* twoBitInfo of an intact export: one chromosome of MaxPos bases
FullChromSizes == (Chr :> MaxPos)

\* twoBitInfo of a truncated export: the chromosome is missing
TruncatedChromSizes == [x \in {} |-> 0]

NotGiven == [given |-> FALSE, value |-> <<>>]

Given(v) == [given |-> TRUE, value |-> v]

\* --src-region values: c:1-2:-1, c:2-1:1 (inverted), c:1-9:1 (beyond the end)
GoodRegionText == <<"c", ":", "1", "-", "2", ":", "-", "1">>

InvertedRegionText == <<"c", ":", "2", "-", "1", ":", "1">>

LongRegionText == <<"c", ":", "1", "-", "9", ":", "1">>

RegionTexts == {GoodRegionText, InvertedRegionText, LongRegionText}

\* --src-bed-file values and the intervals pybedtools reads from them
\* input.bed holds c 0 1 + and c 1 2 -; point.bed holds the zero-length
\* feature c 1 1 +
BedFiles == {<<"input.bed">>, <<"point.bed">>}

BedIntervals(path) ==
    IF path = <<"point.bed">> THEN <<SimpleRegion(Chr, 1, 1, "+")>>
    ELSE <<SimpleRegion(Chr, 0, 1, "+"), SimpleRegion(Chr, 1, 2, "-")>>

\* what halLiftover --outPSL can print for a region file: for each record a
\* mapping with the record's strand as query strand, on either target strand
MapperOutputs(bed) ==
    { [i \in 1..Len(bed) |-> [q |-> bed[i].strand, t |-> ts[i]]] :
        ts \in [1..Len(bed) -> {"+", "-"}] }

OtherStrand(strand) == IF strand = "-" THEN "+" ELSE "-"

\* pslPosTarget on one record: a negative target strand is made positive and
\* the query strand is inverted with it
pslPosTarget(rec) ==
    IF rec.t = "-" THEN [q |-> OtherStrand(rec.q), t |-> "+"] ELSE rec

\* mutant: the mapper's output goes to the file as it is
PslCopied(raw) == raw

\* cmd2 = ['pslPosTarget', 'stdin', out_psl_file] on the mapper's stream
PslWritten(raw) == [i \in 1..Len(raw) |-> pslPosTarget(raw[i])]

FlankArgs == {-1, 0, MaxFlank}

ArgSets ==
    [flank : FlankArgs,
     src_region : {NotGiven} \cup {Given(t) : t \in RegionTexts},
     src_bed_file : {NotGiven} \cup {Given(f) : f \in BedFiles},
     src_genome : Genomes,
     dest_genome : Genomes]

\* the stages of a run, in pipeline order
StageOrder == <<"export_src", "export_dest", "load_lengths", "build",
                "liftover", "chain">>

StageIndex(s) == CHOOSE i \in 1..Len(StageOrder) : StageOrder[i] = s

PipeStages == {"export_src", "export_dest", "liftover"}

NoProc == [stage |-> "none", p1 |-> "none", p2 |-> "none"]

NoArgs == [flank |-> 0, src_region |-> NotGiven, src_bed_file |-> NotGiven,
           src_genome |-> "GRCh38", dest_genome |-> "GRCh38"]

IdleRun ==
    [pc |-> "idle", args |-> NoArgs, started |-> <<>>, done |-> {},
     skipped |-> {}, failedStage |-> "none", error |-> "none",
     proc |-> NoProc, pipeLog |-> {}, ws |-> "none", bed |-> <<>>,
     psl |-> "absent", regions |-> <<>>, sizes |-> TruncatedChromSizes,
     read |-> "none", raw |-> <<>>, pslRecs |-> <<>>]

VARIABLES
    run,        \* per invocation slot: the state of the running script
    fs,         \* <hal stem>_files/<genome>.2bit: "absent", "partial", "complete"
    auxDir,     \* whether <hal stem>_files exists
    outFile,    \* the output file: "absent", "partial", "written"
    exports,    \* per genome: how many times the export pipe was started
    firstOk,    \* per genome: the first export of it completed with both stages 0
    srcFiles,   \* the archive and the input region file: "intact" or "changed"
    p_in,       \* parse check: the fields the text was written from
    p_text,     \* parse check: the region text
    p_out,      \* parse check: the result of parse_region, or "pending"
    b_flank,    \* builder check: flank_length
    b_regions,  \* builder check: the regions
    b_out       \* builder check: the result of make_src_region_file, or "pending"

vars == <<run, fs, auxDir, outFile, exports, firstOk, srcFiles,
          p_in, p_text, p_out, b_flank, b_regions, b_out>>

pipeVars == <<run, fs, auxDir, outFile, exports, firstOk, srcFiles>>

parseVars == <<p_in, p_text, p_out>>

buildVars == <<b_flank, b_regions, b_out>>

\* ------------------------------------------------------------------------
\* Helpers of the driver
\* ------------------------------------------------------------------------
Exited(p) == p \in {"exit0", "exit1"}

Set(r, rec) == run' = [run EXCEPT ![r] = rec]

\* mutant: the cached artifact is never found
ArtifactNeverPresent(g) == FALSE

\* mutant: only a finished artifact counts as present
ArtifactComplete(g) == fs[g] = "complete"

\* os.path.isfile(<aux dir>/<genome>.2bit)
ArtifactPresent(g) == fs[g] # "absent"

\* another invocation's encoder has the same artifact open for writing
OtherWriter(r, g) ==
    \E o \in Runs \ {r} :
        /\ run[o].proc.p2 = "writing"
        /\ \/ run[o].proc.stage = "export_src" /\ run[o].args.src_genome = g
           \/ run[o].proc.stage = "export_dest" /\ run[o].args.dest_genome = g

\* another invocation's export of the same artifact has not returned yet
OtherExporting(r, g) ==
    \E o \in Runs \ {r} :
        /\ run[o].pc \in {"p2_wait", "p1_wait", "unwind"}
        /\ \/ run[o].proc.stage = "export_src" /\ run[o].args.src_genome = g
           \/ run[o].proc.stage = "export_dest" /\ run[o].args.dest_genome = g

StageGenome(rec, stage) ==
    IF stage = "export_src" THEN rec.args.src_genome ELSE rec.args.dest_genome

\* mutant: the workspace is left behind
KeepWorkspace(rec) == rec

\* TemporaryDirectory.__exit__: the workspace and the files in it are removed
Cleanup(rec) ==
    IF rec.ws = "exists"
    THEN [rec EXCEPT !.ws = "removed", !.bed = <<>>, !.psl = "absent",
                     !.raw = <<>>, !.pslRecs = <<>>]
    ELSE rec

\* mutant: an error leaves the workspace behind
RaiseNoCleanup(rec, stage, error) ==
    [rec EXCEPT !.pc = "failed", !.failedStage = stage, !.error = error]

\* an exception leaves the script: the with block (if entered) is unwound
Raise(rec, stage, error) ==
    [Cleanup(rec) EXCEPT !.pc = "failed", !.failedStage = stage, !.error = error]

\* the script runs off its end
Finish(rec) == [Cleanup(rec) EXCEPT !.pc = "done"]

\* where the driver continues after a stage returned
AfterStage(stage) ==
    CASE stage = "export_src"  -> "dest_isfile"
      [] stage = "export_dest" -> "tmpdir"
      [] stage = "load_lengths" -> "build"
      [] stage = "build"       -> "liftover"
      [] stage = "liftover"    -> "chain"
      [] OTHER                 -> "done"

Completed(rec, stage) ==
    [rec EXCEPT !.done = @ \cup {stage}, !.pc = AfterStage(stage)]

\* Popen(cmd1), Popen(cmd2): both processes of a piped stage are started
Spawned(rec, stage) ==
    [rec EXCEPT !.started = Append(@, stage),
                !.proc = [stage |-> stage, p1 |-> "running", p2 |-> "running"],
                !.pc = "p2_wait"]

\* ------------------------------------------------------------------------
\* Actions of one invocation r of the script
\* ------------------------------------------------------------------------
\* the script's process is gone: nothing of the invocation remains but files
Exit(r) ==
    /\ run[r].pc \in {"done", "failed"}
    /\ Set(r, IdleRun)
    /\ UNCHANGED <<fs, auxDir, outFile, exports, firstOk, srcFiles,
                 parseVars, buildVars>>

\* the script is started with a command line
Invoke(r, args) ==
    /\ run[r].pc = "idle"
    /\ Set(r, [IdleRun EXCEPT !.pc = "args", !.args = args])
    /\ UNCHANGED <<fs, auxDir, outFile, exports, firstOk, srcFiles,
                 parseVars, buildVars>>

\* the required mutually exclusive group of --src-region / --src-bed-file
GroupError(args) ==
    \/ args.src_region.given /\ args.src_bed_file.given
    \/ ~args.src_region.given /\ ~args.src_bed_file.given

\* parser.parse_args()
ParseArgs(r) ==
    /\ run[r].pc = "args"
    /\ IF GroupError(run[r].args)
       THEN Set(r, Raise(run[r], "none", "usage"))
       ELSE Set(r, [run[r] EXCEPT !.pc = "flank"])
    /\ UNCHANGED <<fs, auxDir, outFile, exports, firstOk, srcFiles,
                 parseVars, buildVars>>

\* mutant: the flank check is off by one
FlankCheckOffByOne(flank) == flank < -1

FlankNegative(flank) == flank < 0

\* if flank < 0: raise; os.makedirs(hal_aux_dir, exist_ok=True)
CheckFlank(r) ==
    /\ run[r].pc = "flank"
    /\ IF FlankNegative(run[r].args.flank)
       THEN /\ Set(r, Raise(run[r], "none", "flank"))
            /\ UNCHANGED auxDir
       ELSE /\ Set(r, [run[r] EXCEPT !.pc = "src_isfile"])
            /\ auxDir' = TRUE
    /\ UNCHANGED <<fs, outFile, exports, firstOk, srcFiles,
                 parseVars, buildVars>>

\* if not os.path.isfile(<genome>.2bit): export_2bit_file(...) starts
CheckArtifact(r, stage, at) ==
    LET g == StageGenome(run[r], stage) IN
    /\ run[r].pc = at
    /\ IF ArtifactPresent(g)
       THEN /\ Set(r, [Completed(run[r], stage) EXCEPT
                         !.skipped = @ \cup {[stage |-> stage, saw |-> fs[g],
                                              racing |-> OtherExporting(r, g)]}])
            /\ UNCHANGED exports
       ELSE /\ exports[g] < MaxExports
            /\ Set(r, Spawned(run[r], stage))
            /\ exports' = [exports EXCEPT ![g] = @ + 1]
    /\ UNCHANGED <<fs, auxDir, outFile, firstOk, srcFiles,
                 parseVars, buildVars>>

CheckSrc(r) == CheckArtifact(r, "export_src", "src_isfile")

CheckDest(r) == CheckArtifact(r, "export_dest", "dest_isfile")

\* the producer (hal2fasta, halLiftover) exits with a status
P1Exit(r, status) ==
    /\ run[r].proc.p1 = "running"
    /\ Set(r, [run[r] EXCEPT !.proc.p1 = status])
    /\ UNCHANGED <<fs, auxDir, outFile, exports, firstOk, srcFiles,
                 parseVars, buildVars>>

\* the consumer (faToTwoBit, pslPosTarget) opens its output file for writing
P2Open(r) ==
    LET stage == run[r].proc.stage IN
    /\ run[r].proc.p2 = "running"
    /\ IF stage = "liftover"
       THEN /\ Set(r, [run[r] EXCEPT !.proc.p2 = "writing", !.psl = "partial"])
            /\ UNCHANGED fs
       ELSE /\ Set(r, [run[r] EXCEPT !.proc.p2 = "writing"])
            /\ fs' = [fs EXCEPT ![StageGenome(run[r], stage)] = "partial"]
    /\ UNCHANGED <<auxDir, outFile, exports, firstOk, srcFiles,
                 parseVars, buildVars>>

\* the consumer exits 0: it has read its input to the end (the producer is
\* gone) and written its file; the file is whole only if the producer's
\* stream was, and nobody else is still writing the same path
P2ExitZero(r) ==
    LET stage == run[r].proc.stage
        whole == run[r].proc.p1 = "exit0"
    IN
    /\ run[r].proc.p2 = "writing"
    /\ Exited(run[r].proc.p1)
    /\ IF stage = "liftover"
       THEN /\ \E raw \in MapperOutputs(run[r].bed) :
                  Set(r, [run[r] EXCEPT !.proc.p2 = "exit0",
                                        !.psl = IF whole THEN "written" ELSE "partial",
                                        !.raw = raw,
                                        !.pslRecs = PslWritten(raw)])
            /\ UNCHANGED fs
       ELSE /\ Set(r, [run[r] EXCEPT !.proc.p2 = "exit0"])
            /\ fs' = [fs EXCEPT ![StageGenome(run[r], stage)] =
                        IF whole /\ ~OtherWriter(r, StageGenome(run[r], stage))
                        THEN "complete" ELSE "partial"]
    /\ UNCHANGED <<auxDir, outFile, exports, firstOk, srcFiles,
                 parseVars, buildVars>>

\* the consumer exits non-zero, leaving whatever it had written
P2ExitFail(r) ==
    /\ run[r].proc.p2 \in {"running", "writing"}
    /\ Set(r, [run[r] EXCEPT !.proc.p2 = "exit1"])
    /\ UNCHANGED <<fs, auxDir, outFile, exports, firstOk, srcFiles,
                 parseVars, buildVars>>

\* mutants: a return code is not looked at
ConsumerCheckMissing(p2) == FALSE

ProducerCheckMissing(p1) == FALSE

ConsumerFailed(p2) == p2 # "exit0"

ProducerFailed(p1) == p1 # "exit0"

Logged(rec, outcome) ==
    [rec EXCEPT !.pipeLog = @ \cup {[stage |-> rec.proc.stage, p1 |-> rec.proc.p1,
                                     p2 |-> rec.proc.p2, outcome |-> outcome]}]

\* p2.wait(); if p2.returncode != 0: raise
WaitP2(r) ==
    /\ run[r].pc = "p2_wait"
    /\ Exited(run[r].proc.p2)
    /\ IF ConsumerFailed(run[r].proc.p2)
       THEN Set(r, [run[r] EXCEPT !.pc = "unwind"])
       ELSE Set(r, [run[r] EXCEPT !.pc = "p1_wait"])
    /\ UNCHANGED <<fs, auxDir, outFile, exports, firstOk, srcFiles,
                 parseVars, buildVars>>

\* mutant: the consumer's error goes on without a wait for the producer
UnwindNoWait(r) ==
    /\ run[r].pc = "unwind"
    /\ Set(r, Raise(Logged(run[r], "consumer"), run[r].proc.stage, "consumer"))
    /\ UNCHANGED <<fs, auxDir, outFile, exports, firstOk, srcFiles,
                 parseVars, buildVars>>

\* the consumer's error leaves "with Popen(cmd1) as p1": Popen.__exit__ closes
\* the pipe and waits for the producer before the error goes on
UnwindP1(r) ==
    /\ run[r].pc = "unwind"
    /\ Exited(run[r].proc.p1)
    /\ Set(r, Raise(Logged(run[r], "consumer"), run[r].proc.stage, "consumer"))
    /\ UNCHANGED <<fs, auxDir, outFile, exports, firstOk, srcFiles,
                 parseVars, buildVars>>

\* p1.wait(); if p1.returncode != 0: raise; else the stage returns
WaitP1(r) ==
    LET stage == run[r].proc.stage IN
    /\ run[r].pc = "p1_wait"
    /\ Exited(run[r].proc.p1)
    /\ IF ProducerFailed(run[r].proc.p1)
       THEN /\ Set(r, Raise(Logged(run[r], "producer"), stage, "producer"))
            /\ UNCHANGED firstOk
       ELSE /\ Set(r, Completed(Logged(run[r], "ok"), stage))
            /\ firstOk' = IF stage # "liftover" /\ exports[StageGenome(run[r], stage)] = 1
                          THEN [firstOk EXCEPT ![StageGenome(run[r], stage)] = TRUE]
                          ELSE firstOk
    /\ UNCHANGED <<fs, auxDir, outFile, exports, srcFiles,
                 parseVars, buildVars>>

\* with TemporaryDirectory() as tmp_dir
MakeTmpDir(r) ==
    /\ run[r].pc = "tmpdir"
    /\ Set(r, [run[r] EXCEPT !.ws = "exists", !.pc = "regions"])
    /\ UNCHANGED <<fs, auxDir, outFile, exports, firstOk, srcFiles,
                 parseVars, buildVars>>

\* src_regions = [parse_region(src_region)], or pybedtools.BedTool(src_bed_file)
GetRegions(r) ==
    /\ run[r].pc = "regions"
    /\ IF run[r].args.src_region.given
       THEN LET parsed == parse_region(run[r].args.src_region.value) IN
            IF parsed.ok
            THEN Set(r, [run[r] EXCEPT !.regions = <<parsed.value>>, !.pc = "lengths"])
            ELSE Set(r, Raise(run[r], "none", "format"))
       ELSE Set(r, [run[r] EXCEPT !.regions = BedIntervals(run[r].args.src_bed_file.value),
                                  !.pc = "lengths"])
    /\ UNCHANGED <<fs, auxDir, outFile, exports, firstOk, srcFiles,
                 parseVars, buildVars>>

\* what twoBitInfo can print for the artifact as it is on disk
ReadableSizes(state) ==
    CASE state = "complete" -> {FullChromSizes}
      [] state = "partial"  -> {FullChromSizes, TruncatedChromSizes}
      [] OTHER              -> {}

\* src_chrom_sizes = load_chrom_sizes(src_2bit_file): twoBitInfo runs to its
\* end; a non-zero exit raises CalledProcessError
LoadChromSizes(r) ==
    LET state == fs[run[r].args.src_genome]
        begun == [run[r] EXCEPT !.started = Append(@, "load_lengths"), !.read = state]
    IN
    /\ run[r].pc = "lengths"
    /\ \/ \E sizes \in ReadableSizes(state) :
             Set(r, [Completed(begun, "load_lengths") EXCEPT !.sizes = sizes])
       \/ Set(r, Raise(begun, "load_lengths", "lengths"))
    /\ UNCHANGED <<fs, auxDir, outFile, exports, firstOk, srcFiles,
                 parseVars, buildVars>>

\* make_src_region_file(src_regions, src_chrom_sizes, query_bed_file, flank)
MakeSrcRegionFile(r) ==
    LET out == make_src_region_file(run[r].regions, run[r].sizes, run[r].args.flank)
        begun == [run[r] EXCEPT !.started = Append(@, "build"), !.bed = out.file]
    IN
    /\ run[r].pc = "build"
    /\ IF out.error = "ok"
       THEN Set(r, Completed(begun, "build"))
       ELSE Set(r, Raise(begun, "build", "region"))
    /\ UNCHANGED <<fs, auxDir, outFile, exports, firstOk, srcFiles,
                 parseVars, buildVars>>

\* run_hal_liftover(...) starts halLiftover | pslPosTarget
StartLiftover(r) ==
    /\ run[r].pc = "liftover"
    /\ Set(r, Spawned(run[r], "liftover"))
    /\ UNCHANGED <<fs, auxDir, outFile, exports, firstOk, srcFiles,
                 parseVars, buildVars>>

\* run_axt_chain(...): axtChain runs to its end; check=True raises on non-zero
RunAxtChain(r) ==
    LET begun == [run[r] EXCEPT !.started = Append(@, "chain")] IN
    /\ run[r].pc = "chain"
    /\ \/ /\ Set(r, Finish(Completed(begun, "chain")))
          /\ outFile' = "written"
       \/ /\ Set(r, Raise(begun, "chain", "chain"))
          /\ outFile' \in {outFile, "partial"}
    /\ UNCHANGED <<fs, auxDir, exports, firstOk, srcFiles,
                 parseVars, buildVars>>

\* ------------------------------------------------------------------------
\* Inputs of the parse check: region texts written from their fields
\* ------------------------------------------------------------------------
RECURSIVE ToDigits(_)
ToDigits(n) ==
    IF n < 10 THEN <<Digits[n + 1]>>
    ELSE ToDigits(n \div 10) \o <<Digits[(n % 10) + 1]>>

Numeral(n, pad) == IF pad THEN <<"0">> \o ToDigits(n) ELSE ToDigits(n)

ChromNames == {Chr, <<"c", "-", "1">>, <<>>, <<"a", ":", "b">>}

StrandTokens == {<<"1">>, <<"-", "1">>, <<"+">>, <<"0">>, <<>>}

Tails == {<<>>, <<NL>>, <<" ">>}

Shapes == {"good", "dash_for_colon", "colon_for_dash", "no_last_colon"}

ParseInputs ==
    [chrom : ChromNames, S : 0..MaxCoord, E : 0..MaxCoord, pad : BOOLEAN,
     shape : Shapes, strand : StrandTokens, tail : Tails]

Render(inp) ==
    inp.chrom
    \o (IF inp.shape = "dash_for_colon" THEN <<"-">> ELSE <<":">>)
    \o Numeral(inp.S, inp.pad)
    \o (IF inp.shape = "colon_for_dash" THEN <<":">> ELSE <<"-">>)
    \o Numeral(inp.E, inp.pad)
    \o (IF inp.shape = "no_last_colon" THEN <<>> ELSE <<":">>)
    \o inp.strand
    \o inp.tail

\* the text is exactly chrom:start-end:strand with strand 1 or -1
WellFormed(inp) ==
    /\ inp.chrom # <<>> /\ NoColon(inp.chrom)
    /\ inp.shape = "good"
    /\ inp.strand \in {<<"1">>, <<"-", "1">>}
    /\ inp.tail = <<>>

Pending == [ok |-> FALSE, error |-> "pending"]

NoParseInput == [chrom |-> <<>>, S |-> 0, E |-> 0, pad |-> FALSE,
                 shape |-> "good", strand |-> <<>>, tail |-> <<>>]

\* ------------------------------------------------------------------------
\* Inputs of the builder check: region lists
\* ------------------------------------------------------------------------
UnknownChr == <<"u">>

AllRegions ==
    [chrom : {Chr, UnknownChr}, start : (-1)..MaxPos, end : 0..(MaxPos + 1),
     strand : {"+", "-"}]

\* regions the builder accepts against FullChromSizes, on the + strand
InBoundsRegions ==
    [chrom : {Chr}, start : 0..MaxPos, end : 0..MaxPos, strand : {"+"}]

SeqsUpTo(S, n) == UNION { [1..k -> S] : k \in 0..n }

\* an accepted prefix, any region, and possibly one more region after it
RegionLists ==
    {<<>>} \cup
    { pre \o <<probe>> \o post :
        pre \in SeqsUpTo(InBoundsRegions, MaxRegions - 1),
        probe \in AllRegions,
        post \in {<<>>, <<SimpleRegion(Chr, 0, MaxPos, "-")>>} }

BuildPending == [error |-> "pending", file |-> <<>>, names |-> <<>>]

\* ------------------------------------------------------------------------
\* Specifications
\* ------------------------------------------------------------------------
PipeInit ==
    /\ run = [r \in Runs |-> IdleRun]
    /\ fs = [g \in Genomes |-> "absent"]
    /\ auxDir = FALSE
    /\ outFile = "absent"
    /\ exports = [g \in Genomes |-> 0]
    /\ firstOk = [g \in Genomes |-> FALSE]
    /\ srcFiles = [hal |-> "intact", bed |-> "intact"]

ParseIdle == p_in = NoParseInput /\ p_text = <<>> /\ p_out = Pending

BuildIdle == b_flank = 0 /\ b_regions = <<>> /\ b_out = BuildPending

Init == PipeInit /\ ParseIdle /\ BuildIdle

\* the steps of invocation r after its start
Step(r) ==
    \/ ParseArgs(r)
    \/ CheckFlank(r)
    \/ CheckSrc(r)
    \/ CheckDest(r)
    \/ P1Exit(r, "exit0")
    \/ P1Exit(r, "exit1")
    \/ P2Open(r)
    \/ P2ExitZero(r)
    \/ P2ExitFail(r)
    \/ WaitP2(r)
    \/ UnwindP1(r)
    \/ WaitP1(r)
    \/ MakeTmpDir(r)
    \/ GetRegions(r)
    \/ LoadChromSizes(r)
    \/ MakeSrcRegionFile(r)
    \/ StartLiftover(r)
    \/ RunAxtChain(r)

\* one invocation after another: the script is started again only after the
\* previous invocation has ended
Next ==
    \/ \E args \in ArgSets : Invoke("r1", args)
    \/ Step("r1")
    \/ Exit("r1")

Spec == Init /\ [][Next]_vars

\* two invocations at once on the same archive, each with a valid command line
RaceArgSets ==
    { a \in ArgSets : a.flank = 0 /\ a.src_region = Given(GoodRegionText)
                      /\ ~a.src_bed_file.given }

NextRace ==
    \E r \in Runs :
        \/ \E args \in RaceArgSets : Invoke(r, args)
        \/ Step(r)

SpecRace == Init /\ [][NextRace]_vars

\* parse_region applied to a region text
InitParse ==
    /\ PipeInit /\ BuildIdle
    /\ p_in \in ParseInputs
    /\ p_text = Render(p_in)
    /\ p_out = Pending

DoParse ==
    /\ p_out = Pending
    /\ p_out' = parse_region(p_text)
    /\ UNCHANGED <<p_in, p_text, pipeVars, buildVars>>

SpecParse == InitParse /\ [][DoParse]_vars

\* make_src_region_file applied to a list of regions
InitBuild ==
    /\ PipeInit /\ ParseIdle
    /\ b_flank \in 0..MaxFlank
    /\ b_regions \in RegionLists
    /\ b_out = BuildPending

DoBuild ==
    /\ b_out = BuildPending
    /\ b_out' = make_src_region_file(b_regions, FullChromSizes, b_flank)
    /\ UNCHANGED <<b_flank, b_regions, pipeVars, parseVars>>

SpecBuild == InitBuild /\ [][DoBuild]_vars

\* ------------------------------------------------------------------------
\* Properties
\* ------------------------------------------------------------------------
Terminal(rec) == rec.pc \in {"done", "failed"}

Last(q) == q[Len(q)]

SkippedStages(rec) == { e.stage : e \in rec.skipped }

\* the stage returned normally: skipped as cached, or run with every process
\* of it exiting 0
Succeeded(rec, stage) ==
    \/ stage \in SkippedStages(rec)
    \/ /\ stage \in PipeStages
       /\ \E e \in rec.pipeLog : e.stage = stage /\ e.p1 = "exit0" /\ e.p2 = "exit0"
    \/ stage \notin PipeStages /\ stage \in rec.done

\* C1: the stages of a run are started in the fixed order export_src,
\* export_dest, load_lengths, build, liftover, chain, each at most once and
\* only after every earlier stage has succeeded (or was skipped as cached);
\* after a stage failed it is the last one started, so chain is not invoked.
C1_StageOrder ==
    \A r \in Runs :
        LET rec == run[r] IN
        /\ \A i, j \in 1..Len(rec.started) :
              i < j => StageIndex(rec.started[i]) < StageIndex(rec.started[j])
        /\ \A i \in 1..Len(rec.started) :
              \A k \in 1..Len(StageOrder) :
                  k < StageIndex(rec.started[i]) => Succeeded(rec, StageOrder[k])
        /\ rec.pc = "failed" =>
              /\ "chain" \notin rec.done
              /\ rec.failedStage # "none" =>
                    /\ rec.started # <<>>
                    /\ Last(rec.started) = rec.failedStage
              /\ rec.failedStage # "chain" =>
                    \A i \in 1..Len(rec.started) : rec.started[i] # "chain"

\* a run whose liftover failed after both exports, the length query and the
\* region file: chain was never started
C1_Witness ==
    \E r \in Runs :
        /\ run[r].pc = "failed" /\ run[r].failedStage = "liftover"
        /\ run[r].started = <<"export_src", "export_dest", "load_lengths",
                              "build", "liftover">>

BadCommandLine(args) ==
    \/ args.flank < 0
    \/ args.src_region.given = args.src_bed_file.given

\* C2: a run whose flank is negative, or that is given both or neither of the
\* region sources, never starts an external process and ends with the usage
\* (or flank) error.
C2_ValidationFirst ==
    \A r \in Runs :
        (run[r].pc # "idle" /\ BadCommandLine(run[r].args)) =>
            /\ run[r].started = <<>>
            /\ run[r].proc = NoProc
            /\ run[r].pipeLog = {}
            /\ run[r].pc \in {"args", "flank", "failed"}
            /\ run[r].pc = "failed" => run[r].error \in {"usage", "flank"}

\* a run rejected for its negative flank while the source artifact was not
\* cached (an export would have been needed)
C2_Witness ==
    \E r \in Runs :
        /\ run[r].pc = "failed" /\ run[r].error = "flank"
        /\ run[r].args.src_region.given
        /\ fs[run[r].args.src_genome] = "absent"

\* C3: a run that ends with a region format error has started no external
\* process.
C3_FormatErrorBeforeProcesses ==
    \A r \in Runs :
        (run[r].pc = "failed" /\ run[r].error = "format") => run[r].started = <<>>

NewlySkipped(r, g) ==
    \E e \in run'[r].skipped \ run[r].skipped :
        StageGenome(run[r], e.stage) = g

\* C4: an export of a genome is started only while its artifact is absent and
\* the isfile check skips the export exactly when the artifact exists; so with
\* one run after another, once the first export of a genome has succeeded it
\* is never exported again.
C4_ExportOnce ==
    [][\A g \in Genomes :
          /\ exports'[g] # exports[g] => (fs[g] = "absent" /\ ~firstOk[g])
          /\ firstOk'[g] => exports'[g] = 1
          /\ \A r \in Runs :
                /\ NewlySkipped(r, g) => fs[g] # "absent"
                /\ (/\ run[r].pc = "src_isfile" /\ run[r].args.src_genome = g
                    /\ run'[r].pc # "src_isfile" /\ fs[g] # "absent")
                   => NewlySkipped(r, g)]_vars

\* a later run that finished using the cached source artifact of the one
\* successful export
C4_Witness ==
    \E r \in Runs :
        /\ run[r].pc = "done"
        /\ "export_src" \in SkippedStages(run[r])
        /\ firstOk[run[r].args.src_genome]
        /\ exports[run[r].args.src_genome] = 1

\* C5: nothing makes a run wait for another run's export: a run at its isfile
\* check while the other run's encoder is still writing the same artifact
\* takes the file as present and skips its own export.
C5_NoLock ==
    [][\A r \in Runs :
          (/\ run[r].pc = "src_isfile"
           /\ fs[run[r].args.src_genome] = "partial"
           /\ OtherExporting(r, run[r].args.src_genome)
           /\ run'[r] # run[r])
          => /\ run'[r].pc = "dest_isfile"
             /\ "export_src" \in SkippedStages(run'[r])
             /\ exports' = exports]_vars

\* a run skipped its export on a file another run was still exporting, and
\* then read that truncated file
C5_Witness ==
    \E r \in Runs :
        /\ \E e \in run[r].skipped :
              e.stage = "export_src" /\ e.racing /\ e.saw = "partial"
        /\ run[r].read = "partial"

\* C6: when a run has ended, by success or by any error, its workspace with
\* the region file and the raw mapping file does not exist.
C6_WorkspaceGone ==
    \A r \in Runs :
        Terminal(run[r]) =>
            /\ run[r].ws # "exists"
            /\ run[r].bed = <<>>
            /\ run[r].psl = "absent"

\* a run that failed in the region file builder after creating its workspace
C6_Witness ==
    \E r \in Runs :
        /\ run[r].pc = "failed" /\ run[r].failedStage = "build"
        /\ run[r].ws = "removed"

\* C7: a piped stage returns normally iff both processes exited 0; a non-zero
\* consumer gives the consumer's error whatever the producer did, and a
\* non-zero producer alone gives the producer's error.
C7_PipeOutcome ==
    \A r \in Runs :
        \A e \in run[r].pipeLog :
            /\ e.outcome = "ok" <=> (e.p1 = "exit0" /\ e.p2 = "exit0")
            /\ e.p2 = "exit1" => e.outcome = "consumer"
            /\ (e.p2 = "exit0" /\ e.p1 = "exit1") => e.outcome = "producer"
            /\ e.outcome = "ok" <=> e.stage \in run[r].done
            /\ e.outcome # "ok" =>
                  /\ run[r].pc = "failed"
                  /\ run[r].failedStage = e.stage
                  /\ run[r].error = e.outcome

\* a liftover in which both processes exited non-zero: the consumer is named
C7_Witness ==
    \E r \in Runs :
        \E e \in run[r].pipeLog :
            /\ e.stage = "liftover" /\ e.p1 = "exit1" /\ e.p2 = "exit1"
            /\ e.outcome = "consumer"

Parsed == p_out # Pending

\* C8: an accepted text chrom:S-E:strand gives the region with that chrom,
\* start S-1, end E, strand + for 1 and - for -1; start+1 and end written
\* back in 1-based form are S and E.
C8_ParseRoundTrip ==
    (Parsed /\ p_out.ok) =>
        /\ p_out.value.chrom = p_in.chrom
        /\ p_out.value.start = p_in.S - 1
        /\ p_out.value.end = p_in.E
        /\ p_in.strand = <<"1">> => p_out.value.strand = "+"
        /\ p_in.strand = <<"-", "1">> => p_out.value.strand = "-"
        /\ ToDigits(p_out.value.start + 1) = ToDigits(p_in.S)
        /\ ToDigits(p_out.value.end) = ToDigits(p_in.E)

\* c:10-11:-1 parsed to (c, 9, 11, -)
C8_Witness ==
    /\ Parsed /\ p_out.ok
    /\ p_in.S = 10 /\ p_in.E = 11 /\ p_in.strand = <<"-", "1">>
    /\ p_out.value = SimpleRegion(Chr, 9, 11, "-")

\* C9: parse fails for every text that is not exactly chrom:start-end:strand
\* with strand 1 or -1, and for every such text with S-1 >= E.
C9_ParseRejects ==
    (Parsed /\ (~WellFormed(p_in) \/ p_in.S - 1 >= p_in.E)) => ~p_out.ok

\* C10: every record the builder emits is (max(0, start - flank),
\* min(end + flank, chrom length)) of its region, lies within
\* [0, chrom length], and with flank 0 is the region's own (start, end).
C10_FlankClamped ==
    \A i \in 1..Len(b_out.file) :
        LET rec == b_out.file[i]
            region == b_regions[i]
        IN
        /\ rec.start = (IF region.start - b_flank > 0 THEN region.start - b_flank ELSE 0)
        /\ rec.end = (IF region.end + b_flank < MaxPos THEN region.end + b_flank ELSE MaxPos)
        /\ rec.start >= 0
        /\ rec.end <= MaxPos
        /\ b_flank = 0 => (rec.start = region.start /\ rec.end = region.end)

\* a region away from both ends with a flank longer than the chromosome:
\* the record is the whole chromosome
C10_Witness ==
    /\ b_out.error = "ok" /\ Len(b_out.file) >= 1
    /\ b_flank > MaxPos
    /\ b_regions[1].start > 0 /\ b_regions[1].end < MaxPos
    /\ b_out.file[1].start = 0 /\ b_out.file[1].end = MaxPos

Built == b_out # BuildPending

\* the region is one the builder must take, against a chromosome of MaxPos
\* bases: known chromosome, start >= 0, end <= length
Acceptable(region) ==
    region.chrom = Chr /\ region.start >= 0 /\ region.end <= MaxPos

\* the position of the first region that is not acceptable, 0 if there is none
FirstInvalid(regions) ==
    IF \A i \in 1..Len(regions) : Acceptable(regions[i]) THEN 0
    ELSE CHOOSE k \in 1..Len(regions) :
            /\ ~Acceptable(regions[k])
            /\ \A i \in 1..(k - 1) : Acceptable(regions[i])

\* C11: the builder raises on a region of an unknown chromosome (naming the
\* chromosome), on a start below 0 and on an end beyond the chromosome
\* length, and on no region whose end is the chromosome length or less; the
\* region it raises on has no record in the file.
C11_Rejections ==
    Built =>
        LET k == Len(b_out.file) + 1 IN
        IF b_out.error = "ok" THEN \A i \in 1..Len(b_regions) : Acceptable(b_regions[i])
        ELSE /\ k <= Len(b_regions)
             /\ ~Acceptable(b_regions[k])
             /\ b_regions[k].chrom # Chr
                   => (b_out.error = "unknown chromosome"
                       /\ b_out.names = <<b_regions[k].chrom>>)
             /\ (b_regions[k].chrom = Chr /\ b_regions[k].start < 0)
                   => b_out.error = "start must be >= 0"
             /\ (b_regions[k].chrom = Chr /\ b_regions[k].start >= 0)
                   => (b_out.error = "end greater than chromosome length"
                       /\ b_regions[k].end > MaxPos)
             /\ \A i \in 1..Len(b_out.file) : Acceptable(b_regions[i])

\* a region ending exactly at the chromosome length was taken, and the next
\* one, ending one base later, was rejected with no record
C11_Witness ==
    /\ Built /\ b_out.error = "end greater than chromosome length"
    /\ Len(b_out.file) = 1
    /\ b_regions[1].end = MaxPos
    /\ b_regions[2].end = MaxPos + 1

\* C12: the file holds one record per region before the first invalid one, in
\* input order, each with name '.', score 0 and the region's chromosome and
\* strand; with no invalid region that is every region and the builder
\* returns, otherwise it raises and the file stops before position k.
C12_SinglePass ==
    Built =>
        LET k == FirstInvalid(b_regions)
            n == IF k = 0 THEN Len(b_regions) ELSE k - 1
        IN
        /\ (b_out.error = "ok") <=> (k = 0)
        /\ Len(b_out.file) = n
        /\ \A i \in 1..n :
              /\ b_out.file[i].chrom = b_regions[i].chrom
              /\ b_out.file[i].strand = b_regions[i].strand
              /\ b_out.file[i].name = "."
              /\ b_out.file[i].score = 0
              /\ b_out.file[i].start <= b_regions[i].start
              /\ b_out.file[i].end >= b_regions[i].end

\* three regions with the second invalid: the builder raised and the file
\* holds the first record only
C12_Witness ==
    /\ Built /\ b_out.error # "ok"
    /\ Len(b_regions) = 3
    /\ FirstInvalid(b_regions) = 2
    /\ Len(b_out.file) = 1

\* C16: every region parse returns has start >= 0 and end > start.
C16_RegionInvariant ==
    (Parsed /\ p_out.ok) =>
        (p_out.value.start >= 0 /\ p_out.value.end > p_out.value.start)

InPipe(rec) == rec.pc \in {"p2_wait", "p1_wait", "unwind"}

ExportStages == {"export_src", "export_dest"}

\* C13: a step changes the output file only as the chain step of a run, and
\* an artifact only during an export of that genome; the auxiliary directory
\* is never removed, the archive and the input region file are never
\* changed, and a run that has ended has left no workspace.
C13_DurableState ==
    [][/\ outFile' # outFile =>
            \E r \in Runs : run[r].pc = "chain" /\ Terminal(run'[r])
       /\ \A g \in Genomes :
            fs'[g] # fs[g] =>
                \E r \in Runs :
                    /\ InPipe(run[r]) /\ run[r].proc.stage \in ExportStages
                    /\ StageGenome(run[r], run[r].proc.stage) = g
                    /\ auxDir
       /\ auxDir => auxDir'
       /\ srcFiles' = srcFiles
       /\ \A r \in Runs : Terminal(run'[r]) => run'[r].ws # "exists"]_vars

\* a finished run: artifacts of both genomes and the output file exist, the
\* workspace is gone, the archive and the region file are as they were
C13_Witness ==
    \E r \in Runs :
        /\ run[r].pc = "done" /\ run[r].ws = "removed"
        /\ run[r].args.src_bed_file.given
        /\ outFile = "written"
        /\ auxDir
        /\ fs[run[r].args.src_genome] = "complete"
        /\ fs[run[r].args.dest_genome] = "complete"
        /\ srcFiles = [hal |-> "intact", bed |-> "intact"]

\* C14: after a liftover that returned normally the mapping file holds, for
\* each record the mapper printed, one record on the positive target strand;
\* its query strand is the mapper's, inverted iff the mapper's target strand
\* was negative.
C14_NormalizedOnce ==
    \A r \in Runs :
        (run[r].pc = "chain" /\ "liftover" \in run[r].done) =>
            /\ run[r].psl = "written"
            /\ Len(run[r].pslRecs) = Len(run[r].raw)
            /\ Len(run[r].raw) = Len(run[r].bed)
            /\ \A i \in 1..Len(run[r].raw) :
                  /\ run[r].pslRecs[i].t = "+"
                  /\ run[r].raw[i].t = "+" => run[r].pslRecs[i].q = run[r].raw[i].q
                  /\ run[r].raw[i].t = "-" =>
                        /\ run[r].pslRecs[i].q # run[r].raw[i].q
                        /\ run[r].pslRecs[i].q \in {"+", "-"}

\* a - strand region mapped to the negative target strand: the file has it as
\* + query on + target
C14_Witness ==
    \E r \in Runs :
        /\ run[r].pc = "chain"
        /\ \E i \in 1..Len(run[r].raw) :
              /\ run[r].raw[i] = [q |-> "-", t |-> "-"]
              /\ run[r].pslRecs[i] = [q |-> "+", t |-> "+"]

\* C15: once liftover has been started, every record of the region file has
\* 0 <= start < end <= chromosome length.
C15_NonEmptyIntervals ==
    \A r \in Runs :
        (\E i \in 1..Len(run[r].started) : run[r].started[i] = "liftover") =>
            \A i \in 1..Len(run[r].bed) :
                LET rec == run[r].bed[i] IN
                /\ rec.chrom \in DOMAIN run[r].sizes
                /\ 0 <= rec.start
                /\ rec.start < rec.end
                /\ rec.end <= run[r].sizes[rec.chrom]

\* C17: outside a piped stage no process of one is running: when the stage
\* has returned or raised, producer and consumer have both exited.
C17_BothJoined ==
    \A r \in Runs :
        /\ ~InPipe(run[r]) =>
              /\ run[r].proc.p1 # "running"
              /\ run[r].proc.p2 \notin {"running", "writing"}
        /\ \A e \in run[r].pipeLog : Exited(e.p1) /\ Exited(e.p2)

\* a run that ended with the consumer's error of its source export, with the
\* producer gone too
C17_Witness ==
    \E r \in Runs :
        /\ run[r].pc = "failed" /\ run[r].error = "consumer"
        /\ run[r].proc = [stage |-> "export_src", p1 |-> "exit1", p2 |-> "exit1"]

\* C18: an artifact on which a run skips its export is a whole one, written
\* by an export whose two processes both exited 0.
C18_CachedIsSound ==
    \A r \in Runs : \A e \in run[r].skipped : e.saw = "complete"

====
